---- MODULE Spec2Model ----
(***************************************************************************)
(* Model of the code-validation engine of the bomb-defuser game:           *)
(* LevelManager.validate_solution and the harnesses it dispatches to       *)
(* (src/level_manager.py).                                                 *)
(*                                                                         *)
(* Numbers are fixed-point integers in thousandths: 3.44 is 3440, the      *)
(* default tolerance 0.01 is 10 and the z-score tolerance 0.1 is 100.      *)
(***************************************************************************)
EXTENDS Integers, Sequences, FiniteSets, TLC

(***************************************************************************)
(* Python values.  Every value is a record of one shape, so that values of *)
(* different Python types can be compared: t is the type tag, n the        *)
(* number (thousandths; a bool is the int 1 or 0, so 1000 or 0), s the     *)
(* text of a str, items the elements of a list or tuple.  The floats that  *)
(* are no finite number, nan and the infinities, carry their name in s.    *)
(***************************************************************************)
PyNone == [t |-> "none", n |-> 0, s |-> "", items |-> <<>>]

Num(k) == [t |-> "num", n |-> k, s |-> "", items |-> <<>>]

PyInt(k) == Num(k * 1000)

\* float('nan')
NaN == [t |-> "num", n |-> 0, s |-> "nan", items |-> <<>>]

\* float('inf')
Infinity == [t |-> "num", n |-> 0, s |-> "inf", items |-> <<>>]

Bool(b) == [t |-> "bool", n |-> IF b THEN 1000 ELSE 0, s |-> "", items |-> <<>>]

Str(x) == [t |-> "str", n |-> 0, s |-> x, items |-> <<>>]

List(xs) == [t |-> "list", n |-> 0, s |-> "", items |-> xs]

Tuple(xs) == [t |-> "tuple", n |-> 0, s |-> "", items |-> xs]

\* A list of ints, from the ints.
Ints(ks) == List([i \in 1..Len(ks) |-> PyInt(ks[i])])

\* A list of numbers given in thousandths.
Nums(ks) == List([i \in 1..Len(ks) |-> Num(ks[i])])

\* isinstance(v, (int, float)): bool is a subclass of int.
IsNumber(v) == v.t \in {"num", "bool"}

\* isinstance(v, (list, tuple))
IsSequence(v) == v.t \in {"list", "tuple"}

Abs(k) == IF k < 0 THEN -k ELSE k

\* A bool or a finite int or float.
IsFinite(v) == v.s = ""

\* abs(actual - expected) < tolerance: the difference of two numbers one of
\* which is nan or infinite is nan or infinite, and no such float is below
\* the tolerance.
WithinTolerance(actual, expected, tolerance) ==
    /\ IsFinite(actual)
    /\ IsFinite(expected)
    /\ Abs(actual.n - expected.n) < tolerance

\* Python's actual == expected.
RECURSIVE PyEq(_, _)
PyEq(a, e) ==
    IF IsNumber(a) /\ IsNumber(e) THEN a.n = e.n /\ a.s = e.s /\ a.s # "nan"
    ELSE IF IsSequence(a) /\ IsSequence(e)
        THEN /\ a.t = e.t
             /\ Len(a.items) = Len(e.items)
             /\ \A i \in 1..Len(a.items) : PyEq(a.items[i], e.items[i])
    ELSE a.t = e.t /\ a.s = e.s

\* The default of compare_outputs' tolerance parameter (0.01).
DefaultTolerance == 10

\* The tolerance run_level_8_tests passes for z-scores (0.1).
ZScoreTolerance == 100

\* compare_outputs without its comparison of the lengths: zip stops at the end
\* of the shorter sequence.
RECURSIVE compare_outputs_zip(_, _, _)
compare_outputs_zip(actual, expected, tolerance) ==
    IF actual.t = "none" /\ expected.t = "none" THEN TRUE
    ELSE IF actual.t = "none" \/ expected.t = "none" THEN FALSE
    ELSE IF IsNumber(actual) /\ IsNumber(expected)
        THEN WithinTolerance(actual, expected, tolerance)
    ELSE IF IsSequence(actual) /\ IsSequence(expected)
        THEN \A i \in 1..Len(actual.items) :
                i <= Len(expected.items) =>
                    compare_outputs_zip(actual.items[i], expected.items[i], tolerance)
    ELSE PyEq(actual, expected)

\* compare_outputs without abs: the difference itself is held against the
\* tolerance.
RECURSIVE compare_outputs_signed(_, _, _)
compare_outputs_signed(actual, expected, tolerance) ==
    IF actual.t = "none" /\ expected.t = "none" THEN TRUE
    ELSE IF actual.t = "none" \/ expected.t = "none" THEN FALSE
    ELSE IF IsNumber(actual) /\ IsNumber(expected)
        THEN /\ IsFinite(actual)
             /\ IsFinite(expected)
             /\ actual.n - expected.n < tolerance
    ELSE IF IsSequence(actual) /\ IsSequence(expected)
        THEN IF Len(actual.items) # Len(expected.items) THEN FALSE
             ELSE \A i \in 1..Len(actual.items) :
                     compare_outputs_signed(actual.items[i], expected.items[i], tolerance)
    ELSE PyEq(actual, expected)

RECURSIVE compare_outputs(_, _, _)
compare_outputs(actual, expected, tolerance) ==
    IF actual.t = "none" /\ expected.t = "none" THEN TRUE
    ELSE IF actual.t = "none" \/ expected.t = "none" THEN FALSE
    ELSE IF IsNumber(actual) /\ IsNumber(expected)
        THEN WithinTolerance(actual, expected, tolerance)
    ELSE IF IsSequence(actual) /\ IsSequence(expected)
        THEN IF Len(actual.items) # Len(expected.items) THEN FALSE
             ELSE \A i \in 1..Len(actual.items) :
                     compare_outputs(actual.items[i], expected.items[i], tolerance)
    ELSE PyEq(actual, expected)

(***************************************************************************)
(* The exercise catalog: initialize_levels.  Only the fields the engine    *)
(* reads are kept: test_cases and the number of entries of errors.         *)
(***************************************************************************)
Levels == 1..10

TC(in, out) == [input |-> in, output |-> out]

TCF(in, out, f) == [input |-> in, output |-> out, function |-> f]

test_data_1 == Ints(<<1, 2, 2, 3, 4, 4, 4, 5, 6>>)

test_data_2 == Ints(<<1, 2, 3, 4, 5>>)

test_data_3 == Ints(<<1, 2, 3, 4>>)

test_data_4 == Ints(<<2, 2, 2, 2>>)

Matrix(rows) == List([i \in 1..Len(rows) |-> Ints(rows[i])])

test_cases(level) ==
    CASE level = 1 -> << TC(Tuple(<<PyInt(1), PyInt(4), PyInt(4)>>), PyInt(0)),
                         TC(Tuple(<<PyInt(2), PyInt(5), PyInt(3)>>), PyInt(1)),
                         TC(Tuple(<<PyInt(1), PyInt(2), PyInt(5)>>), PyInt(-16)) >>
      [] level = 2 -> << TC(Tuple(<<PyInt(2), PyInt(4)>>), PyInt(-2)),
                         TC(Tuple(<<PyInt(3), PyInt(-9)>>), PyInt(3)),
                         TC(Tuple(<<PyInt(1), PyInt(0)>>), PyInt(0)) >>
      [] level = 3 -> << TC(PyInt(2), Bool(TRUE)),
                         TC(PyInt(17), Bool(TRUE)),
                         TC(PyInt(4), Bool(FALSE)),
                         TC(PyInt(25), Bool(FALSE)) >>
      [] level = 4 -> << TC(Tuple(<<PyInt(48), PyInt(18)>>), PyInt(6)),
                         TC(Tuple(<<PyInt(100), PyInt(25)>>), PyInt(25)),
                         TC(Tuple(<<PyInt(17), PyInt(13)>>), PyInt(1)) >>
      [] level = 5 -> << TC(PyInt(5), Ints(<<0, 1, 1, 2, 3>>)),
                         TC(PyInt(7), Ints(<<0, 1, 1, 2, 3, 5, 8>>)),
                         TC(PyInt(1), Ints(<<0>>)) >>
      [] level = 6 -> << TC(test_data_1, Num(3440)),
                         TC(test_data_1, PyInt(4)),
                         TC(test_data_2, PyInt(3)),
                         TC(test_data_2, PyInt(3)) >>
      [] level = 7 -> << TC(Tuple(<<Matrix(<< <<1, 2>>, <<3, 4>> >>),
                                    Matrix(<< <<5, 6>>, <<7, 8>> >>)>>),
                            Matrix(<< <<19, 22>>, <<43, 50>> >>)),
                         TC(Tuple(<<Matrix(<< <<1, 2, 3>> >>),
                                    Matrix(<< <<4>>, <<5>>, <<6>> >>)>>),
                            Matrix(<< <<32>> >>)) >>
      [] level = 8 -> << TC(Ints(<<10, 12, 14, 16, 18, 20>>), Num(3160)),
                         TC(Ints(<<1, 1, 1, 1, 1>>), PyInt(0)) >>
      [] level = 9 -> << TC(Tuple(<<test_data_2, Ints(<<2, 4, 6, 8, 10>>)>>), PyInt(1)),
                         TC(Tuple(<<test_data_2, Ints(<<10, 8, 6, 4, 2>>)>>), PyInt(-1)) >>
      [] level = 10 -> << TCF(test_data_1, Num(3440), "calculate_mean"),
                          TCF(test_data_2, PyInt(3), "calculate_mean"),
                          TCF(test_data_1, PyInt(4), "calculate_median"),
                          TCF(test_data_2, PyInt(3), "calculate_median"),
                          TCF(test_data_3, Num(2500), "calculate_median"),
                          TCF(test_data_2, PyInt(2), "calculate_variance"),
                          TCF(test_data_4, PyInt(0), "calculate_variance"),
                          TCF(test_data_2, Num(1410), "calculate_std_dev"),
                          TCF(test_data_4, PyInt(0), "calculate_std_dev") >>

\* len(level_data['errors'])
errors_count(level) ==
    CASE level \in {1, 2, 3, 4, 5, 9, 10} -> 1
      [] level = 6 -> 3
      [] level \in {7, 8} -> 4

\* LevelManager.get_level: the level's data, or None for an unknown level.
get_level(level_number) == level_number \in Levels

(***************************************************************************)
(* The scenario tables the harnesses run.  run_level_6_tests ..            *)
(* run_level_10_tests carry their own hard-coded test_scenarios and never  *)
(* read the test_cases they are given; run_single_function_tests runs the  *)
(* level's test_cases on the function extract_main_function names.         *)
(***************************************************************************)
Scenario(f, in, exp) ==
    [func |-> f, method |-> "", method_args |-> <<>>, input |-> in, expected |-> exp]

MethodScenario(c, in, m, args, exp) ==
    [func |-> c, method |-> m, method_args |-> args, input |-> in, expected |-> exp]

level_6_scenarios ==
    << Scenario("calculate_mean", test_data_1, Num(3440)),
       Scenario("calculate_mean", test_data_2, PyInt(3)),
       Scenario("calculate_median", test_data_1, PyInt(4)),
       Scenario("calculate_median", test_data_2, PyInt(3)),
       Scenario("calculate_median", test_data_3, Num(2500)),
       Scenario("calculate_variance", test_data_2, PyInt(2)),
       Scenario("calculate_variance", test_data_4, PyInt(0)),
       Scenario("calculate_std_dev", test_data_2, Num(1410)),
       Scenario("calculate_std_dev", test_data_4, PyInt(0)) >>

level_7_scenarios ==
    << Scenario("matrix_multiply",
                Tuple(<<Matrix(<< <<1, 2>>, <<3, 4>> >>), Matrix(<< <<5, 6>>, <<7, 8>> >>)>>),
                Matrix(<< <<19, 22>>, <<43, 50>> >>)),
       Scenario("matrix_multiply",
                Tuple(<<Matrix(<< <<1, 2, 3>> >>), Matrix(<< <<4>>, <<5>>, <<6>> >>)>>),
                Matrix(<< <<32>> >>)),
       Scenario("matrix_transpose",
                Matrix(<< <<1, 2, 3>>, <<4, 5, 6>> >>),
                Matrix(<< <<1, 4>>, <<2, 5>>, <<3, 6>> >>)),
       Scenario("matrix_transpose",
                Matrix(<< <<1, 2>>, <<3, 4>>, <<5, 6>> >>),
                Matrix(<< <<1, 3, 5>>, <<2, 4, 6>> >>)) >>

level_8_scenarios ==
    << Scenario("calculate_std_dev", Ints(<<10, 12, 14, 16, 18, 20>>), Num(3160)),
       Scenario("calculate_std_dev", Ints(<<1, 1, 1, 1, 1>>), PyInt(0)),
       Scenario("calculate_z_scores", test_data_2, Nums(<<-1410, -710, 0, 710, 1410>>)),
       Scenario("calculate_z_scores", Ints(<<1, 1, 1, 1, 1>>), Ints(<<0, 0, 0, 0, 0>>)) >>

level_9_scenarios ==
    << Scenario("calculate_correlation",
                Tuple(<<test_data_2, Ints(<<2, 4, 6, 8, 10>>)>>), PyInt(1)),
       Scenario("calculate_correlation",
                Tuple(<<test_data_2, Ints(<<10, 8, 6, 4, 2>>)>>), PyInt(-1)),
       Scenario("interpret_correlation", Num(950), Str("very strong positive correlation")),
       Scenario("interpret_correlation", Num(-800), Str("strong negative correlation")) >>

level_10_scenarios ==
    << MethodScenario("StatisticalAnalyzer", test_data_2, "calculate_mean", <<>>, PyInt(3)),
       MethodScenario("StatisticalAnalyzer", test_data_2, "calculate_percentile",
                      <<PyInt(50)>>, PyInt(3)),
       MethodScenario("StatisticalAnalyzer", test_data_2, "calculate_variance", <<>>, PyInt(2)) >>

\* The scenarios run_single_function_tests goes through: the test cases it is given.
single_function_scenarios(main_function, cases) ==
    [i \in 1..Len(cases) |-> Scenario(main_function, cases[i].input, cases[i].output)]

\* The scenario list of the harness execute_test_cases dispatches to.
test_scenarios(type, main_function, cases) ==
    CASE type = "level_6" -> level_6_scenarios
      [] type = "level_7" -> level_7_scenarios
      [] type = "level_8" -> level_8_scenarios
      [] type = "level_9" -> level_9_scenarios
      [] type = "level_10" -> level_10_scenarios
      [] OTHER -> single_function_scenarios(main_function, cases)

(***************************************************************************)
(* The execution environment: safe_globals of execute_test_cases.          *)
(***************************************************************************)
\* The names of safe_globals['__builtins__'].
SafeBuiltins ==
    { "len", "sum", "min", "max", "abs", "round", "int", "float", "str", "list",
      "dict", "range", "enumerate", "zip", "sorted", "print",
      "__import__", "ImportError", "ModuleNotFoundError" }

\* The modules bound in safe_globals before the snippet runs.
PreImported == {"math", "statistics"}

\* The keys of safe_globals before exec.
InitialGlobals == {"__builtins__", "__name__"} \cup PreImported

\* callable(safe_globals.get(key)) and not key.startswith('_'): the names a
\* snippet binds are the functions it defines; the pre-bound names are modules
\* and dunder entries.
Functions(globals) == globals \ InitialGlobals

detect_level_type(globals) ==
    LET functions == Functions(globals) IN
    IF {"calculate_mean", "calculate_median", "calculate_variance", "calculate_std_dev"}
          \subseteq functions THEN "level_6"
    ELSE IF {"matrix_multiply", "matrix_transpose"} \subseteq functions THEN "level_7"
    ELSE IF {"calculate_variance", "calculate_std_dev", "calculate_z_scores"}
          \subseteq functions THEN "level_8"
    ELSE IF {"calculate_correlation", "interpret_correlation"} \subseteq functions
        THEN "level_9"
    ELSE IF "StatisticalAnalyzer" \in globals THEN "level_10"
    ELSE "single_function"

(***************************************************************************)
(* Submissions.  A snippet is described by what the engine can observe of  *)
(* it: whether ast.parse accepts it, which builtin its top-level code      *)
(* needs (an import statement needs __import__, a class statement needs    *)
(* __build_class__), how its top-level code ends, which names it binds,    *)
(* the first FunctionDef ast.walk meets (extract_main_function), and the   *)
(* methods of the object StatisticalAnalyzer(...) returns.                 *)
(***************************************************************************)
NoFunction == "None"

Snippet(p, b, m, e, names, main, meths) ==
    [parse |-> p, needs |-> b, module |-> m, top |-> e, defs |-> names,
     main_function |-> main, methods |-> meths]

\* A snippet that parses, runs to the end of its top-level code and binds names.
Defines(names, main) == Snippet("ok", "len", "", "ok", names, main, {})

Level6Names == {"calculate_mean", "calculate_median", "calculate_variance", "calculate_std_dev"}

Level7Names == {"matrix_multiply", "matrix_transpose"}

Level8Names == {"calculate_variance", "calculate_std_dev", "calculate_z_scores"}

Level9Names == {"calculate_correlation", "interpret_correlation"}

Level10Methods == {"calculate_mean", "calculate_percentile", "calculate_variance"}

Submissions ==
    { \* def calculate_discriminant(a, b, c)     (no colon: level 1's broken_code)
      Snippet("SyntaxError", "len", "", "ok", {}, NoFunction, {}),
      \* x = -----...1   (ast.parse gives up with MemoryError)
      Snippet("MemoryError", "len", "", "ok", {}, NoFunction, {}),
      \* x = 1/0
      Snippet("ok", "len", "", "raise", {}, NoFunction, {}),
      \* import sys; sys.exit(1)
      Snippet("ok", "__import__", "sys", "exit", {}, NoFunction, {}),
      \* while True: pass
      Snippet("ok", "len", "", "loop", {}, NoFunction, {}),
      \* f = open('/etc/passwd')
      Snippet("ok", "open", "", "ok", {"calculate_discriminant"}, "calculate_discriminant", {}),
      \* class StatisticalAnalyzer: ...     (level 10's solution_code)
      Snippet("ok", "__build_class__", "", "ok", {"StatisticalAnalyzer"}, "__init__",
              Level10Methods),
      \* import os; cwd = os.getcwd(); def calculate_discriminant ...
      Snippet("ok", "__import__", "os", "ok", {"calculate_discriminant"},
              "calculate_discriminant", {}),
      \* import math; def calculate_discriminant ...
      Snippet("ok", "__import__", "math", "ok", {"calculate_discriminant"},
              "calculate_discriminant", {}),
      \* x = 1
      Defines({}, NoFunction),
      \* if False: def calculate_discriminant ...
      Defines({}, "calculate_discriminant"),
      Defines({"calculate_discriminant"}, "calculate_discriminant"),
      Defines({"foo"}, "foo"),
      Defines({"gcd", "lcm"}, "gcd"),
      Defines(Level6Names, "calculate_mean"),
      Defines(Level7Names, "matrix_multiply"),
      Defines(Level8Names, "calculate_variance"),
      Defines(Level9Names, "calculate_correlation"),
      Defines(Level6Names \cup Level8Names, "calculate_mean"),
      \* def StatisticalAnalyzer(data): return <an object with these methods>
      Snippet("ok", "len", "", "ok", {"StatisticalAnalyzer"}, "StatisticalAnalyzer",
              Level10Methods),
      Snippet("ok", "len", "", "ok", {"StatisticalAnalyzer"}, "StatisticalAnalyzer",
              {"calculate_mean"}) }

(***************************************************************************)
(* The catalog's own sources: broken_code and solution_code of each level, *)
(* described as the snippets above are.                                    *)
(***************************************************************************)
\* The keys validate_level_data_integrity requires of a level.
required_fields ==
    {"title", "description", "difficulty", "broken_code", "solution_code",
     "test_cases", "hint", "errors"}

\* The keys of a level's dict: level 8 has no solution_code.
level_fields(level) ==
    IF level = 8 THEN required_fields \ {"solution_code"} ELSE required_fields

\* solution_code of the levels that have one. Levels 1-7 define their
\* functions and print a demonstration; level 6 and 10 import math; level 9's
\* demonstration raises ValueError (an invalid f-string format specifier);
\* level 10 is a class statement.
solution_code(level) ==
    CASE level = 1 -> Snippet("ok", "print", "", "ok", {"calculate_discriminant"},
                              "calculate_discriminant", {})
      [] level = 2 -> Snippet("ok", "print", "", "ok", {"solve_linear"}, "solve_linear", {})
      [] level = 3 -> Snippet("ok", "print", "", "ok", {"is_prime"}, "is_prime", {})
      [] level = 4 -> Snippet("ok", "print", "", "ok", {"gcd", "lcm"}, "gcd", {})
      [] level = 5 -> Snippet("ok", "print", "", "ok", {"fibonacci", "fib_ratio"},
                              "fibonacci", {})
      [] level = 6 -> Snippet("ok", "__import__", "math", "ok", Level6Names,
                              "calculate_mean", {})
      [] level = 7 -> Snippet("ok", "print", "", "ok", Level7Names, "matrix_multiply", {})
      [] level = 9 -> Snippet("ok", "print", "", "raise", Level9Names,
                              "calculate_correlation", {})
      [] level = 10 -> Snippet("ok", "__build_class__", "", "ok", {"StatisticalAnalyzer"},
                               "__init__", Level10Methods)

\* broken_code: levels 1, 2, 3, 8 and 9 do not parse; level 4's is its
\* solution_code; the demonstrations of levels 5, 6 and 7 raise (IndexError,
\* NameError, IndexError); level 10 is a class statement.
broken_code(level) ==
    CASE level \in {1, 2, 3, 8, 9} -> Snippet("SyntaxError", "len", "", "ok", {}, NoFunction, {})
      [] level = 4 -> solution_code(4)
      [] level = 5 -> Snippet("ok", "print", "", "raise", {"fibonacci", "fib_ratio"},
                              "fibonacci", {})
      [] level = 6 -> Snippet("ok", "__import__", "math", "raise", Level6Names,
                              "calculate_mean", {})
      [] level = 7 -> Snippet("ok", "print", "", "raise", Level7Names, "matrix_multiply", {})
      [] level = 10 -> Snippet("ok", "__build_class__", "", "ok", {"StatisticalAnalyzer"},
                               "__init__", Level10Methods)

\* level_data[field] for the two source fields.
source(level, field) ==
    IF field = "solution_code" THEN solution_code(level) ELSE broken_code(level)

\* The levels whose broken_code differs from their solution_code.
defective_levels == Levels \ {4}

\* What the functions of the catalog's solutions return in the i-th scenario
\* of their harness: the expected output, but for the mean 3.4444... and the
\* standard deviation 1.4142... of level 6, whose expected outputs are
\* rounded to two decimals.
solution_output(type, i, scenario) ==
    IF type = "level_6" /\ i = 1 THEN Num(3444)
    ELSE IF type = "level_6" /\ i = 8 THEN Num(1414)
    ELSE scenario.expected

\* The level numbers validate_solution is called with: the catalog's and two unknown ones.
LevelNumbers == Levels \cup {0, 11}

(***************************************************************************)
(* What calling the submission's function can do: return a value, raise an *)
(* Exception, or raise SystemExit (a BaseException; sys.exit() after an    *)
(* import inside the function).                                            *)
(***************************************************************************)
Return(v) == [kind |-> "return", value |-> v, msg |-> ""]

Raise(m) == [kind |-> "raise", value |-> PyNone, msg |-> m]

SystemExit == [kind |-> "exit", value |-> PyNone, msg |-> "1"]

\* The function never returns (while True: pass): nothing stops the call.
Loop == [kind |-> "loop", value |-> PyNone, msg |-> ""]

\* The expected value with every number moved by d thousandths; a str becomes another str.
RECURSIVE Shift(_, _)
Shift(v, d) ==
    IF IsNumber(v) THEN Num(v.n + d)
    ELSE IF IsSequence(v)
        THEN [v EXCEPT !.items = [i \in 1..Len(v.items) |-> Shift(v.items[i], d)]]
    ELSE IF v.t = "str" THEN Str("unknown")
    ELSE v

\* The distances of a wrong answer from the expected one: within the default
\* tolerance, between the two tolerances, beyond both.
Deltas == {4, 50, 500}

\* The number of scenarios of one call whose invocation does anything but
\* return exactly the expected value.
MaxFaults == 2

Faulty(expected) ==
    {Return(Shift(expected, d)) : d \in Deltas}
        \cup {Return(PyNone), Raise("boom"), Loop}
        \cup (IF "__import__" \in SafeBuiltins THEN {SystemExit} ELSE {})

(***************************************************************************)
(* One iteration of a harness loop.                                        *)
(***************************************************************************)
Error(k, m) == [kind |-> k, msg |-> m]

NoError == Error("None", "")

Result(i, scenario, ok, act, err) ==
    [test_number |-> i, passed |-> ok, input |-> scenario.input,
     expected |-> scenario.expected, actual |-> act, error |-> err]

\* The harness's test before it calls: func_name in safe_globals
\* (main_function and main_function in safe_globals in run_single_function_tests).
Present(scenario, globals) ==
    scenario.func # NoFunction /\ scenario.func \in globals

\* run_level_8_tests compares z-scores element by element, with its own tolerance.
ZScoreBranch(type, scenario) ==
    type = "level_8" /\ scenario.func = "calculate_z_scores"

\* The tolerance of the comparisons of this iteration (compare_outputs' default
\* unless the caller passes one).
ToleranceOf(type, scenario) ==
    IF ZScoreBranch(type, scenario) THEN ZScoreTolerance ELSE DefaultTolerance

\* passed, once the call has returned.
Passed(type, scenario, actual) ==
    IF ZScoreBranch(type, scenario)
    THEN /\ Len(actual.items) = Len(scenario.expected.items)
         /\ \A k \in 1..Len(actual.items) :
               compare_outputs(actual.items[k], scenario.expected.items[k],
                               ToleranceOf(type, scenario))
    ELSE compare_outputs(actual, scenario.expected, ToleranceOf(type, scenario))

\* len(actual_output) raises TypeError (a str has a len too; no call of the
\* model returns one where z-scores are expected).
LenRaises(type, scenario, out) ==
    ZScoreBranch(type, scenario) /\ out.kind = "return" /\ ~IsSequence(out.value)

\* Whether the iteration reaches a comparison.
Compares(type, scenario, globals, methods, out) ==
    /\ Present(scenario, globals)
    /\ out.kind = "return"
    /\ (type = "level_10" => scenario.method \in methods)
    /\ ~LenRaises(type, scenario, out)
    /\ (ZScoreBranch(type, scenario) =>
            Len(out.value.items) = Len(scenario.expected.items))

\* The result one iteration appends, for an invocation that did not raise SystemExit.
ScenarioResult(type, scenario, i, globals, methods, out) ==
    IF ~Present(scenario, globals)
    THEN Result(i, scenario, FALSE, PyNone,
                Error(IF type = "level_10" THEN "Class not found"
                      ELSE "Function not found", scenario.func))
    ELSE IF out.kind = "raise"
    THEN Result(i, scenario, FALSE, PyNone, Error("Test execution error", out.msg))
    ELSE IF type = "level_10" /\ scenario.method \notin methods
    THEN Result(i, scenario, FALSE, PyNone, Error("Method not found", scenario.method))
    ELSE IF LenRaises(type, scenario, out)
    THEN Result(i, scenario, FALSE, PyNone,
                Error("Test execution error", "object has no len()"))
    ELSE LET ok == Passed(type, scenario, out.value) IN
         Result(i, scenario, ok, out.value,
                IF ok THEN NoError ELSE Error("Expected-got", ""))

\* The except branch of execute_test_cases returning no result at all.
NoResults(cases, m) == <<>>

\* The except branch of execute_test_cases: one failing result per test case.
ExecutionFailed(cases, m) ==
    [i \in 1..Len(cases) |->
        [test_number |-> i, passed |-> FALSE, input |-> cases[i].input,
         expected |-> cases[i].output, actual |-> PyNone,
         error |-> Error("Code execution failed", m)]]

(***************************************************************************)
(* The reports of validate_solution.                                       *)
(***************************************************************************)
Message(p, k, m) == [prefix |-> p, kind |-> k, msg |-> m]

InvalidLevelReport ==
    [valid |-> FALSE, errors |-> <<Message("Invalid level", "", "")>>, errors_fixed |-> 0]

SyntaxErrorReport(m) ==
    [valid |-> FALSE, errors |-> <<Message("Syntax Error", "", m)>>, test_results |-> <<>>]

RuntimeErrorReport(m) ==
    [valid |-> FALSE, errors |-> <<Message("Runtime Error", "", m)>>, test_results |-> <<>>]

\* all(...) written as any(...).
any_test_passed(test_results) ==
    \E i \in 1..Len(test_results) : test_results[i].passed

all_tests_passed(test_results) ==
    \A i \in 1..Len(test_results) : test_results[i].passed

failed_tests(test_results) == SelectSeq(test_results, LAMBDA r : ~r.passed)

\* validate_solution counting the test results where it counts the errors.
TestReportCountingResults(level, test_results) ==
    IF all_tests_passed(test_results)
    THEN [valid |-> TRUE, errors |-> <<>>, errors_fixed |-> Len(test_results),
          test_results |-> test_results]
    ELSE LET failed == failed_tests(test_results) IN
         [valid |-> FALSE,
          errors |-> [i \in 1..Len(failed) |->
                        Message("Test failed", failed[i].error.kind, failed[i].error.msg)],
          test_results |-> test_results]

TestReport(level, test_results) ==
    IF all_tests_passed(test_results)
    THEN [valid |-> TRUE, errors |-> <<>>, errors_fixed |-> errors_count(level),
          test_results |-> test_results]
    ELSE LET failed == failed_tests(test_results) IN
         [valid |-> FALSE,
          errors |-> [i \in 1..Len(failed) |->
                        Message("Test failed", failed[i].error.kind, failed[i].error.msg)],
          test_results |-> test_results]

NoReport == [valid |-> FALSE]

\* GameController.on_incorrect_solution: validation_result.get('errors_fixed', 0)
errors_fixed_count(validation_result) ==
    IF "errors_fixed" \in DOMAIN validation_result THEN validation_result.errors_fixed
    ELSE 0

(***************************************************************************)
(* The BombWidget (src/bomb_widget.py): four wires and a countdown.  Its   *)
(* methods are operators from a widget state to the widget state after the *)
(* call and the signal the call emitted ("" for none).  The sparks and the *)
(* painting are left out.                                                  *)
(***************************************************************************)
wire_names == <<"red", "blue", "green", "yellow">>

Wires == {wire_names[i] : i \in 1..4}

\* init_bomb_state
init_bomb_state ==
    [cut |-> {}, time_remaining |-> 30, total_time |-> 30, timer_running |-> FALSE,
     timer_expired_flag |-> FALSE, bomb_exploded |-> FALSE, bomb_defused_flag |-> FALSE,
     flash_effect |-> FALSE, defuse_progress |-> 0]

Quiet(b) == [bomb |-> b, signal |-> ""]

Emits(b, signal) == [bomb |-> b, signal |-> signal]

start_timer(b, seconds) ==
    Quiet([b EXCEPT !.time_remaining = seconds, !.total_time = seconds,
                    !.timer_running = TRUE, !.timer_expired_flag = FALSE])

stop_timer(b) == Quiet([b EXCEPT !.timer_running = FALSE])

\* The slot of countdown_timer.timeout. time_elapsed_percent >= 0.8 is
\* 1 - time_remaining / total_time >= 0.8.
update_countdown(b) ==
    IF b.time_remaining > 0
    THEN LET remaining == b.time_remaining - 1 IN
         Quiet([b EXCEPT !.time_remaining = remaining,
                         !.flash_effect = @ \/ (5 * remaining <= b.total_time)])
    ELSE Emits([b EXCEPT !.timer_running = FALSE, !.timer_expired_flag = TRUE,
                         !.bomb_exploded = TRUE],
               "timer_expired")

\* cut_wire that calls the bomb defused without stopping the countdown.
cut_wire_running(b, wire_name) ==
    IF wire_name \in Wires /\ wire_name \notin b.cut
    THEN LET cut == b.cut \cup {wire_name}
             after == [b EXCEPT !.cut = cut, !.defuse_progress = Cardinality(cut),
                                !.flash_effect = TRUE]
         IN  IF Cardinality(cut) >= 4
             THEN Emits([after EXCEPT !.bomb_defused_flag = TRUE], "bomb_defused")
             ELSE Quiet(after)
    ELSE Quiet(b)

\* defuse_progress is kept in quarters: cut_wires / len(self.wires) >= 1.0
\* when the four wires are cut.
cut_wire(b, wire_name) ==
    IF wire_name \in Wires /\ wire_name \notin b.cut
    THEN LET cut == b.cut \cup {wire_name}
             after == [b EXCEPT !.cut = cut, !.defuse_progress = Cardinality(cut),
                                !.flash_effect = TRUE]
         IN  IF Cardinality(cut) >= 4
             THEN Emits(stop_timer([after EXCEPT !.bomb_defused_flag = TRUE]).bomb,
                        "bomb_defused")
             ELSE Quiet(after)
    ELSE Quiet(b)

reset_bomb(b) ==
    stop_timer([b EXCEPT !.cut = {}, !.bomb_exploded = FALSE, !.bomb_defused_flag = FALSE,
                         !.flash_effect = FALSE, !.defuse_progress = 0,
                         !.timer_expired_flag = FALSE])

(***************************************************************************)
(* The state of one engine and of the call in progress.                    *)
(***************************************************************************)
VARIABLES
    pc,              \* where the call of validate_solution is
    level_number,    \* its first argument
    submitted_code,  \* its second argument
    safe_globals,    \* the namespace the snippet ran in
    level_type,      \* what detect_level_type returned
    results,         \* the results list of the running harness
    report,          \* what validate_solution returned
    faults,          \* invocations of this call that did not return the expected value
    executed,        \* exec(code, safe_globals) was called
    imported,        \* the modules the snippet's import statements loaded
    invoked,         \* the test numbers whose invocation called into the snippet
    raised,          \* the test numbers whose invocation raised
    tolerances,      \* the tolerances compare_outputs was called with
    comparison,      \* a call of compare_outputs on its own: arguments and results
    catalog,         \* the catalog source being validated: level, field, state
    integrity,       \* validate_level_data_integrity: its locals and its result
    levels_data,     \* self.levels_data: the test cases of each level
    modules,         \* the attributes of math and statistics that were rebound
    observed,        \* the reports the callers were given: level, code, report
    validated,       \* the number of calls of validate_solution that returned
    bomb,            \* the BombWidget: wires, countdown, flags
    meter,           \* what was seen of the BombWidget: calls, ticks, signals
    controller,      \* the GameController: level, counters, flags
    editor,          \* the CodeEditor: restart button, hint frame, status
    timers,          \* the single shots of the controller that have not fired
    attempt,         \* what was seen since the last start_level
    tally            \* what was seen since the game began

\* What lives as long as the engine and its process do.
shared == <<levels_data, modules, observed, validated>>

\* The game around the engine: the widgets and their controller.
play == <<controller, editor, timers, attempt, tally>>

game == <<bomb, meter, play>>

\* The state outside the call of validate_solution in progress.
outside == <<comparison, catalog, integrity, shared, game>>

\* The call of validate_solution in progress.
engine == <<pc, level_number, submitted_code, safe_globals, level_type, results, report,
            faults, executed, imported, invoked, raised, tolerances>>

vars == <<engine, outside>>

NoSnippet == Snippet("ok", "len", "", "ok", {}, NoFunction, {})

\* No call of compare_outputs on its own.
NoComparison ==
    [actual |-> PyNone, expected |-> PyNone, tolerance |-> DefaultTolerance,
     state |-> "none", result |-> FALSE, reversed |-> FALSE, reflexive |-> FALSE]

\* No call of validate_solution in progress.
EngineIdle ==
    /\ pc = "idle"
    /\ level_number = 0
    /\ submitted_code = NoSnippet
    /\ safe_globals = InitialGlobals
    /\ level_type = ""
    /\ results = <<>>
    /\ report = NoReport
    /\ faults = 0
    /\ executed = FALSE
    /\ imported = {}
    /\ invoked = {}
    /\ raised = {}
    /\ tolerances = {}

\* No catalog source has been taken.
NoSource == [level |-> 0, field |-> "", state |-> "none"]

\* validate_level_data_integrity has not been called.
NoIntegrity ==
    [state |-> "none", level_num |-> 0, issues |-> <<>>, valid_levels |-> 0,
     valid |-> FALSE, total_levels |-> 0]

\* initialize_levels has filled levels_data, math and statistics are as
\* imported, and no report has been given.
SharedInit ==
    /\ levels_data = [level \in Levels |-> test_cases(level)]
    /\ modules = {}
    /\ observed = {}
    /\ validated = 0

\* GameController.init_game_state. errors_fixed is the length of the list.
init_game_state ==
    [current_level |-> 1, max_level |-> 10, levels_completed |-> 0,
     hint_available |-> FALSE, hint_shown |-> FALSE, errors_fixed |-> 0,
     game_active |-> FALSE, level_completed_flag |-> FALSE]

\* Nothing has been seen of a level: the seconds since start_level, its time
\* limit, the hints shown and when, whether validate_solution reported a
\* valid submission, and the signals the controller emitted.
NoAttempt ==
    [elapsed |-> 0, limit |-> 0, hints |-> 0, hint_at |-> 0, valid |-> FALSE,
     game_over |-> FALSE, level_completed |-> FALSE]

\* Nothing has been seen of the BombWidget.
NoMeter ==
    [op |-> "", arg |-> "", ticks |-> 0, timer_expired |-> 0, bomb_defused |-> 0,
     undisturbed |-> FALSE]

\* The widgets as constructed.
GameInit ==
    /\ bomb = init_bomb_state
    /\ meter = NoMeter
    /\ controller = init_game_state
    /\ editor = [restart_button |-> FALSE, hint |-> FALSE, status |-> ""]
    /\ timers = [hints |-> {}, starts |-> {}, cuts |-> <<>>, waited |-> FALSE]
    /\ attempt = NoAttempt
    /\ tally = [op |-> "", signals |-> <<>>, restarts |-> 0,
                counted |-> [level \in Levels |-> 0]]

Init ==
    /\ EngineIdle
    /\ comparison = NoComparison
    /\ catalog = NoSource
    /\ integrity = NoIntegrity
    /\ SharedInit
    /\ GameInit

\* validate_solution is called: get_level, and the report for an unknown level.
Validate(level, code) ==
    /\ pc = "idle"
    /\ level_number' = level
    /\ submitted_code' = code
    /\ IF get_level(level)
       THEN pc' = "parse" /\ UNCHANGED report
       ELSE pc' = "done" /\ report' = InvalidLevelReport
    /\ UNCHANGED <<safe_globals, level_type, results, faults, executed, imported,
                   invoked, raised, tolerances>>
    /\ UNCHANGED outside

\* validate_solution without its except clauses' early returns: whatever
\* ast.parse says, the snippet goes on to execute_test_cases.
ParseThenExecuteAnyway ==
    /\ pc = "parse"
    /\ pc' = "exec"
    /\ UNCHANGED <<level_number, submitted_code, safe_globals, level_type, results,
                   report, faults, executed, imported, invoked, raised, tolerances>>
    /\ UNCHANGED outside

\* ast.parse(submitted_code) and the two except clauses of validate_solution.
Parse ==
    /\ pc = "parse"
    /\ CASE submitted_code.parse = "ok" -> pc' = "exec" /\ UNCHANGED report
         [] submitted_code.parse = "SyntaxError" ->
                pc' = "done" /\ report' = SyntaxErrorReport("invalid syntax")
         [] OTHER ->
                pc' = "done" /\ report' = RuntimeErrorReport("")
    /\ UNCHANGED <<level_number, submitted_code, safe_globals, level_type, results,
                   faults, executed, imported, invoked, raised, tolerances>>
    /\ UNCHANGED outside

\* How exec(code, safe_globals) ends: a name outside __builtins__ is a NameError.
ExecOutcome(code) ==
    IF code.needs \notin SafeBuiltins THEN "raise" ELSE code.top

\* execute_test_cases up to the dispatch: exec, detect_level_type, and the
\* except branch when the snippet's top-level code raises an Exception.
Exec ==
    /\ pc = "exec"
    /\ executed' = TRUE
    /\ LET end == ExecOutcome(submitted_code) IN
       /\ imported' = IF submitted_code.needs = "__import__" /\ end # "raise"
                      THEN {submitted_code.module} ELSE {}
       /\ CASE end = "ok" ->
                 /\ safe_globals' = InitialGlobals \cup submitted_code.defs
                 /\ level_type' = detect_level_type(safe_globals')
                 /\ pc' = "run"
                 /\ UNCHANGED results
            [] end = "raise" ->
                 /\ results' = ExecutionFailed(levels_data[level_number], "error")
                 /\ pc' = "aggregate"
                 /\ UNCHANGED <<safe_globals, level_type>>
            [] end = "loop" ->
                 /\ pc' = "looping"
                 /\ UNCHANGED <<safe_globals, level_type, results>>
            [] OTHER ->
                 /\ pc' = "escaped"
                 /\ UNCHANGED <<safe_globals, level_type, results>>
    /\ UNCHANGED <<level_number, submitted_code, report, faults, invoked, raised,
                   tolerances>>
    /\ UNCHANGED outside

Scenarios ==
    test_scenarios(level_type, submitted_code.main_function, levels_data[level_number])

\* One iteration of the harness loop, with what the invocation does.
Iterate(out) ==
    LET i == Len(results) + 1
        scenario == Scenarios[i]
        called == Present(scenario, safe_globals)
    IN
    /\ faults' = IF called /\ out # Return(scenario.expected) THEN faults + 1 ELSE faults
    /\ invoked' = IF called THEN invoked \cup {i} ELSE invoked
    /\ raised' = IF called /\ out.kind \in {"raise", "exit"} THEN raised \cup {i}
                 ELSE raised
    /\ IF called /\ out.kind \in {"exit", "loop"}
       THEN /\ pc' = IF out.kind = "exit" THEN "escaped" ELSE "looping"
            /\ UNCHANGED <<results, tolerances>>
       ELSE /\ results' = Append(results,
                    ScenarioResult(level_type, scenario, i, safe_globals,
                                   submitted_code.methods, out))
            /\ tolerances' =
                   IF Compares(level_type, scenario, safe_globals,
                               submitted_code.methods, out)
                   THEN tolerances \cup {ToleranceOf(level_type, scenario)}
                   ELSE tolerances
            /\ pc' = IF i = Len(Scenarios) THEN "aggregate" ELSE "run"

RunScenario ==
    /\ pc = "run"
    /\ LET scenario == Scenarios[Len(results) + 1] IN
       \E out \in {Return(scenario.expected)} \cup
                  (IF faults < MaxFaults /\ Present(scenario, safe_globals)
                   THEN Faulty(scenario.expected) ELSE {}) :
           Iterate(out)
    /\ UNCHANGED <<level_number, submitted_code, safe_globals, level_type, report,
                   executed, imported>>
    /\ UNCHANGED outside

\* validate_solution after execute_test_cases returned.
Aggregate ==
    /\ pc = "aggregate"
    /\ report' = TestReport(level_number, results)
    /\ pc' = "done"
    /\ UNCHANGED <<level_number, submitted_code, safe_globals, level_type, results,
                   faults, executed, imported, invoked, raised, tolerances>>
    /\ UNCHANGED outside

\* The caller has the report, or the exception; the next call starts afresh.
Finish ==
    /\ pc \in {"done", "escaped"}
    /\ pc' = "idle"
    /\ level_number' = 0
    /\ submitted_code' = NoSnippet
    /\ safe_globals' = InitialGlobals
    /\ level_type' = ""
    /\ results' = <<>>
    /\ report' = NoReport
    /\ faults' = 0
    /\ executed' = FALSE
    /\ imported' = {}
    /\ invoked' = {}
    /\ raised' = {}
    /\ tolerances' = {}
    /\ UNCHANGED outside

Next ==
    \/ \E level \in LevelNumbers, code \in Submissions : Validate(level, code)
    \/ Parse
    \/ Exec
    \/ RunScenario
    \/ Aggregate
    \/ Finish

Spec == Init /\ [][Next]_vars

(***************************************************************************)
(* compare_outputs on its own: a caller holds two values and a tolerance   *)
(* and compares them, in both orders and the first with itself.            *)
(***************************************************************************)
\* The longest sequence compared.
MaxLen == 2

\* The values that are no sequence.
Atoms ==
    {PyNone, Num(0), Num(5), Num(10), Num(1000), Num(1005), NaN, Infinity,
     Bool(TRUE), Bool(FALSE), Str("a"), Str("")}

\* The elements of the sequences.
Elements == {PyNone, Num(0), Num(5), NaN, Bool(TRUE)}

\* The sequences of elements of at most n entries.
Entries(n) == UNION {[1..k -> Elements] : k \in 0..n}

\* The lists and tuples of elements.
Flat(n) == {List(xs) : xs \in Entries(n)} \cup {Tuple(xs) : xs \in Entries(n)}

\* The lists of one sequence or string.
Nested == {List(<<x>>) : x \in Flat(1) \cup {Str("a")}}

Values == Atoms \cup Flat(MaxLen) \cup Nested

Tolerances == {DefaultTolerance, ZScoreTolerance}

InitCompare ==
    /\ EngineIdle
    /\ catalog = NoSource
    /\ integrity = NoIntegrity
    /\ SharedInit
    /\ GameInit
    /\ \E actual \in Values, expected \in Values, tolerance \in Tolerances :
          comparison = [NoComparison EXCEPT !.actual = actual, !.expected = expected,
                                            !.tolerance = tolerance, !.state = "called"]

Compare ==
    /\ comparison.state = "called"
    /\ comparison' =
          [comparison EXCEPT
              !.state = "returned",
              !.result = compare_outputs(comparison.actual, comparison.expected,
                                         comparison.tolerance),
              !.reversed = compare_outputs(comparison.expected, comparison.actual,
                                           comparison.tolerance),
              !.reflexive = compare_outputs(comparison.actual, comparison.actual,
                                            comparison.tolerance)]
    /\ UNCHANGED <<engine, catalog, integrity, shared, game>>

NextCompare == Compare

SpecCompare == InitCompare /\ [][NextCompare]_vars

(***************************************************************************)
(* The catalog checked against itself: validate_solution on the catalog's  *)
(* own sources (test_basic_functionality does so for level 1), and         *)
(* validate_level_data_integrity.                                          *)
(***************************************************************************)
SourceFields == {"solution_code", "broken_code"}

\* level_data[field] is read and handed to validate_solution; a level
\* without the field gives a KeyError and no call.
ValidateSource(level, field) ==
    /\ pc = "idle"
    /\ integrity.state # "running"
    /\ IF field \in level_fields(level)
       THEN /\ catalog' = [level |-> level, field |-> field, state |-> "submitted"]
            /\ level_number' = level
            /\ submitted_code' = source(level, field)
            /\ pc' = "parse"
            /\ UNCHANGED <<safe_globals, level_type, results, report, faults, executed,
                           imported, invoked, raised, tolerances>>
       ELSE /\ catalog' = [level |-> level, field |-> field, state |-> "KeyError"]
            /\ UNCHANGED engine
    /\ UNCHANGED <<comparison, integrity, shared, game>>

\* One iteration of the harness loop on a source of the catalog.
RunCatalogScenario ==
    /\ pc = "run"
    /\ LET i == Len(results) + 1 IN
           Iterate(Return(solution_output(level_type, i, Scenarios[i])))
    /\ UNCHANGED <<level_number, submitted_code, safe_globals, level_type, report,
                   executed, imported>>
    /\ UNCHANGED outside

\* An entry of issues: the level it names and what it says.
Issue(level_num, text) == [level |-> level_num, text |-> text]

\* f"Level {level_num}" in issue: "Level 1" is also found in an issue of level 10.
Mentions(issue, level_num) ==
    issue.level = level_num \/ (level_num = 1 /\ issue.level = 10)

\* The issues the test_cases of a level add.
test_case_issues(level_num) ==
    LET cases == test_cases(level_num)
        bad == {i \in 1..Len(cases) : ~({"input", "output"} \subseteq DOMAIN cases[i])}
    IN  IF bad = {} THEN <<>> ELSE <<Issue(level_num, "Test case missing input/output")>>

\* validate_level_data_integrity is called.
StartIntegrity ==
    /\ pc = "idle"
    /\ integrity.state # "running"
    /\ integrity' = [NoIntegrity EXCEPT !.state = "running", !.level_num = 1]
    /\ UNCHANGED <<engine, comparison, catalog, shared, game>>

\* One iteration of the loop over range(1, 11).
CheckLevel ==
    /\ integrity.state = "running"
    /\ integrity.level_num <= 10
    /\ LET level_num == integrity.level_num
           missing_fields == required_fields \ level_fields(level_num)
           syntax == IF solution_code(level_num).parse = "SyntaxError"
                     THEN <<Issue(level_num, "Solution code syntax error")>> ELSE <<>>
           issues == integrity.issues \o syntax \o test_case_issues(level_num)
       IN  IF ~get_level(level_num)
           THEN integrity' =
                    [integrity EXCEPT
                        !.issues = Append(@, Issue(level_num, "Missing level data")),
                        !.level_num = @ + 1]
           ELSE IF missing_fields # {}
           THEN integrity' =
                    [integrity EXCEPT
                        !.issues = Append(@, Issue(level_num, "Missing fields")),
                        !.level_num = @ + 1]
           ELSE integrity' =
                    [integrity EXCEPT
                        !.issues = issues,
                        !.valid_levels =
                            IF \A k \in 1..Len(issues) : ~Mentions(issues[k], level_num)
                            THEN @ + 1 ELSE @,
                        !.level_num = @ + 1]
    /\ UNCHANGED <<engine, comparison, catalog, shared, game>>

\* The loop is over: the result.
ReturnIntegrity ==
    /\ integrity.state = "running"
    /\ integrity.level_num > 10
    /\ integrity' = [integrity EXCEPT !.state = "returned",
                                      !.valid = (Len(integrity.issues) = 0),
                                      !.total_levels = 10]
    /\ UNCHANGED <<engine, comparison, catalog, shared, game>>

NextCatalog ==
    \/ \E level \in Levels, field \in SourceFields : ValidateSource(level, field)
    \/ Parse
    \/ Exec
    \/ RunCatalogScenario
    \/ Aggregate
    \/ Finish
    \/ StartIntegrity
    \/ CheckLevel
    \/ ReturnIntegrity

SpecCatalog == Init /\ [][NextCatalog]_vars

(***************************************************************************)
(* One engine validating one submission after another.  The harness hands  *)
(* the catalog's own input objects to the submitted function               *)
(* (run_single_function_tests), and every safe_globals holds the same      *)
(* math and statistics module objects.                                     *)
(***************************************************************************)
\* The number of calls of validate_solution.
MaxCalls == 3

\* The levels submitted to: inputs that are tuples of ints, inputs that are lists.
SharedLevels == {4, 6}

SharedSubmissions ==
    { \* def count_and_append(x): n = len(x); x.append(0); return n
      Defines({"count_and_append"}, "count_and_append"),
      \* def length(x): return len(x)
      Defines({"length"}, "length"),
      \* def gcd_by_math(a, b): return math.gcd(a, b)
      Defines({"gcd_by_math"}, "gcd_by_math"),
      \* def rebind_gcd(a, b): math.gcd = lambda a, b: 1; return 1
      Defines({"rebind_gcd"}, "rebind_gcd") }

RECURSIVE GCD(_, _)
GCD(a, b) == IF b = 0 THEN a ELSE GCD(b, a % b)

\* func(*test_input) for a tuple, func(test_input) otherwise.
Arguments(test_input) ==
    IF test_input.t = "tuple" THEN test_input.items ELSE <<test_input>>

\* The input object after one more element was appended to the list passed.
Appended(test_input) ==
    IF test_input.t = "tuple"
    THEN Tuple(<<List(Append(test_input.items[1].items, PyInt(0)))>>)
    ELSE List(Append(test_input.items, PyInt(0)))

\* What calling the function of a submission does: what it returns or
\* raises, the input object and the rebound module attributes afterwards.
Call(func, test_input, rebound) ==
    LET args == Arguments(test_input)
        unchanged(out) == [out |-> out, input |-> test_input, modules |-> rebound]
    IN
    CASE func \in {"count_and_append", "length"} ->
            IF Len(args) # 1 THEN unchanged(Raise("takes 1 positional argument"))
            ELSE IF ~IsSequence(args[1]) /\ args[1].t # "str"
                THEN unchanged(Raise("has no len()"))
            ELSE IF func = "length" THEN unchanged(Return(PyInt(Len(args[1].items))))
            ELSE IF args[1].t # "list" THEN unchanged(Raise("has no attribute 'append'"))
            ELSE [out |-> Return(PyInt(Len(args[1].items))),
                  input |-> Appended(test_input), modules |-> rebound]
      [] func = "gcd_by_math" ->
            IF Len(args) # 2 THEN unchanged(Raise("missing 1 required positional argument"))
            ELSE IF "math.gcd" \in rebound THEN unchanged(Return(PyInt(1)))
            ELSE IF \E k \in 1..2 : args[k].t # "num" \/ args[k].n % 1000 # 0
                THEN unchanged(Raise("cannot be interpreted as an integer"))
            ELSE unchanged(Return(PyInt(GCD(Abs(args[1].n) \div 1000,
                                            Abs(args[2].n) \div 1000))))
      [] func = "rebind_gcd" ->
            IF Len(args) # 2 THEN unchanged(Raise("missing 1 required positional argument"))
            ELSE [out |-> Return(PyInt(1)), input |-> test_input,
                  modules |-> rebound \cup {"math.gcd"}]

ValidateShared(level, code) ==
    /\ validated < MaxCalls
    /\ Validate(level, code)

\* One iteration of run_single_function_tests: the result refers to the input
\* object of the test case, which the call may have changed.
RunSharedScenario ==
    /\ pc = "run"
    /\ LET i == Len(results) + 1
           scenario == Scenarios[i]
           called == Present(scenario, safe_globals)
           after == IF called THEN Call(scenario.func, scenario.input, modules)
                    ELSE [out |-> Return(PyNone), input |-> scenario.input,
                          modules |-> modules]
       IN
       /\ results' = Append(results,
               ScenarioResult(level_type, [scenario EXCEPT !.input = after.input], i,
                              safe_globals, submitted_code.methods, after.out))
       /\ levels_data' = [levels_data EXCEPT ![level_number][i].input = after.input]
       /\ modules' = after.modules
       /\ invoked' = IF called THEN invoked \cup {i} ELSE invoked
       /\ raised' = IF called /\ after.out.kind # "return" THEN raised \cup {i} ELSE raised
       /\ tolerances' =
              IF Compares(level_type, scenario, safe_globals, submitted_code.methods,
                          after.out)
              THEN tolerances \cup {ToleranceOf(level_type, scenario)}
              ELSE tolerances
       /\ pc' = IF i = Len(Scenarios) THEN "aggregate" ELSE "run"
    /\ UNCHANGED <<level_number, submitted_code, safe_globals, level_type, report,
                   faults, executed, imported>>
    /\ UNCHANGED <<comparison, catalog, integrity, observed, validated, game>>

\* validate_solution returns: the caller has the report, and the next call
\* builds its safe_globals anew.
ReturnShared ==
    /\ pc = "done"
    /\ observed' = observed \cup
           {[level |-> level_number, code |-> submitted_code.main_function,
             report |-> report]}
    /\ validated' = validated + 1
    /\ pc' = "idle"
    /\ level_number' = 0
    /\ submitted_code' = NoSnippet
    /\ safe_globals' = InitialGlobals
    /\ level_type' = ""
    /\ results' = <<>>
    /\ report' = NoReport
    /\ faults' = 0
    /\ executed' = FALSE
    /\ imported' = {}
    /\ invoked' = {}
    /\ raised' = {}
    /\ tolerances' = {}
    /\ UNCHANGED <<comparison, catalog, integrity, levels_data, modules, game>>

NextShared ==
    \/ \E level \in SharedLevels, code \in SharedSubmissions : ValidateShared(level, code)
    \/ Parse
    \/ Exec
    \/ RunSharedScenario
    \/ Aggregate
    \/ ReturnShared

SpecShared == Init /\ [][NextShared]_vars

(***************************************************************************)
(* The BombWidget on its own: its methods called in any order, and the     *)
(* one-second timeout of countdown_timer while it is active.               *)
(***************************************************************************)
\* The longest countdown started.
MaxSeconds == 4

\* The arguments of cut_wire: the four wires and an unknown one.
WireArguments == Wires \cup {"purple"}

rest == <<engine, comparison, catalog, integrity, shared, play>>

\* The signals counted since the call that opened the interval they belong to.
Count(n, signal, name) == IF signal = name THEN n + 1 ELSE n

StartTimer(seconds) ==
    /\ bomb' = start_timer(bomb, seconds).bomb
    /\ meter' = [meter EXCEPT !.op = "start_timer", !.arg = "", !.ticks = 0,
                              !.timer_expired = 0, !.undisturbed = TRUE]
    /\ UNCHANGED rest

StopTimer ==
    /\ bomb' = stop_timer(bomb).bomb
    /\ meter' = [meter EXCEPT !.op = "stop_timer", !.arg = "", !.undisturbed = FALSE]
    /\ UNCHANGED rest

\* countdown_timer times out: only an active timer does.
Timeout ==
    /\ bomb.timer_running
    /\ LET after == update_countdown(bomb) IN
       /\ bomb' = after.bomb
       /\ meter' = [meter EXCEPT !.op = "update_countdown", !.arg = "",
                                 !.ticks = @ + 1,
                                 !.timer_expired = Count(@, after.signal, "timer_expired")]
    /\ UNCHANGED rest

CutWire(wire_name) ==
    /\ LET after == cut_wire(bomb, wire_name) IN
       /\ bomb' = after.bomb
       /\ meter' = [meter EXCEPT !.op = "cut_wire", !.arg = wire_name,
                                 !.bomb_defused = Count(@, after.signal, "bomb_defused"),
                                 !.undisturbed = @ /\ after.signal = ""]
    /\ UNCHANGED rest

ResetBomb ==
    /\ bomb' = reset_bomb(bomb).bomb
    /\ meter' = [meter EXCEPT !.op = "reset_bomb", !.arg = "", !.bomb_defused = 0,
                              !.undisturbed = FALSE]
    /\ UNCHANGED rest

NextBomb ==
    \/ \E seconds \in 0..MaxSeconds : StartTimer(seconds)
    \/ StopTimer
    \/ Timeout
    \/ \E wire_name \in WireArguments : CutWire(wire_name)
    \/ ResetBomb

SpecBomb == Init /\ [][NextBomb]_vars

(***************************************************************************)
(* The GameController between the CodeEditor and the BombWidget.  The      *)
(* signals are connected directly, so a slot runs inside the step that     *)
(* emits its signal; a single shot runs in a step of its own, and nothing  *)
(* cancels it.  validate_solution is taken by its outcome.                 *)
(***************************************************************************)
\* The restarts of a game.
MaxRestarts == 1

\* The levels the player restarts.
RestartLevels == {9, 10}

\* What validate_code gets from ast.parse and validate_solution.
Outcomes == {"valid", "invalid", "SyntaxError", "Exception"}

\* The game as the handlers see it.
World ==
    [controller |-> controller, editor |-> editor, bomb |-> bomb, timers |-> timers,
     attempt |-> attempt, tally |-> tally]

\* The game when a handler is entered from the event loop.
At(op) == [World EXCEPT !.tally.op = op, !.tally.signals = <<>>]

\* The game as a handler left it.
Become(w) ==
    /\ controller' = w.controller
    /\ editor' = w.editor
    /\ bomb' = w.bomb
    /\ timers' = w.timers
    /\ attempt' = w.attempt
    /\ tally' = w.tally
    /\ UNCHANGED <<engine, comparison, catalog, integrity, shared, meter>>

\* A signal of the controller: nothing is connected to it.
Emit(w, signal) == [w EXCEPT !.tally.signals = Append(@, signal)]

calculate_time_limit(level) ==
    IF level = 1 THEN 60
    ELSE IF level <= 3 THEN 60 + (level - 1) * 30
    ELSE IF level <= 6 THEN 120 + (level - 3) * 60
    ELSE 300 + (level - 6) * 75

\* set_code clears the feedback and hides the restart button; hint_delay is
\* int(time_limit * 0.8 * 1000) ms, a whole number of seconds at every level.
\* Two shots of activate_hint_system due at the same instant are kept as one.
start_level(w, level) ==
    LET time_limit == calculate_time_limit(level)
        entered == [w EXCEPT !.controller.current_level = level,
                             !.controller.level_completed_flag = FALSE,
                             !.controller.hint_shown = FALSE,
                             !.controller.hint_available = FALSE,
                             !.attempt = [NoAttempt EXCEPT !.limit = time_limit]]
    IN  IF ~get_level(level) THEN Emit(entered, "game_over")
        ELSE [entered EXCEPT
                 !.controller.errors_fixed = 0,
                 !.editor = [restart_button |-> FALSE, hint |-> FALSE, status |-> "normal"],
                 !.bomb = start_timer(reset_bomb(w.bomb).bomb, time_limit).bomb,
                 !.timers.hints = IF time_limit > 0 THEN @ \cup {(time_limit * 4) \div 5}
                                  ELSE @,
                 !.controller.game_active = TRUE]

\* Every level of the catalog has its errors listed, so the hint is shown.
activate_hint_system(w) ==
    IF ~w.controller.game_active \/ w.controller.level_completed_flag
         \/ w.controller.hint_shown
    THEN w
    ELSE [w EXCEPT !.controller.hint_available = TRUE,
                   !.controller.hint_shown = TRUE,
                   !.editor.hint = TRUE,
                   !.attempt.hints = @ + 1,
                   !.attempt.hint_at = w.attempt.elapsed]

on_timer_expired(w) ==
    Emit([w EXCEPT !.controller.game_active = FALSE,
                   !.editor.status = "error",
                   !.editor.restart_button = TRUE,
                   !.attempt.game_over = TRUE],
         "game_over")

\* on_level_completed without the test of level_completed_flag.
on_level_completed_unguarded(w) ==
    LET level == w.controller.current_level
        counted == Emit([w EXCEPT !.controller.game_active = FALSE,
                                  !.controller.levels_completed = @ + 1,
                                  !.attempt.level_completed = TRUE,
                                  !.tally.counted[level] = @ + 1],
                        "level_completed")
    IN  IF level >= w.controller.max_level THEN Emit(counted, "game_won")
        ELSE [counted EXCEPT
                 !.timers.starts = @ \cup {[level |-> level + 1, remaining |-> 3]}]

on_level_completed(w) ==
    IF ~w.controller.level_completed_flag THEN w
    ELSE LET level == w.controller.current_level
             counted == Emit([w EXCEPT !.controller.game_active = FALSE,
                                       !.controller.levels_completed = @ + 1,
                                       !.attempt.level_completed = TRUE,
                                       !.tally.counted[level] = @ + 1],
                             "level_completed")
         IN  IF level >= w.controller.max_level THEN Emit(counted, "game_won")
             ELSE [counted EXCEPT
                      !.timers.starts = @ \cup {[level |-> level + 1, remaining |-> 3]}]

\* The four shots at 0, 200, 400 and 600 ms fire in that order.
on_correct_solution(w) ==
    [w EXCEPT !.timers.cuts = @ \o wire_names,
              !.editor.status = "success",
              !.controller.level_completed_flag = TRUE]

\* The report of an invalid submission has no errors_fixed, so no wire is cut.
on_incorrect_solution(w) ==
    [w EXCEPT !.editor.status = "warning", !.editor.restart_button = TRUE]

\* validate_code without the test of game_active and level_completed_flag.
validate_code_unguarded(w, outcome) ==
    IF ~get_level(w.controller.current_level) THEN w
    ELSE IF outcome = "valid"
         THEN on_correct_solution([w EXCEPT !.attempt.valid = TRUE])
    ELSE IF outcome = "invalid" THEN on_incorrect_solution(w)
    ELSE [w EXCEPT !.editor.status = "error"]

validate_code(w, outcome) ==
    IF ~w.controller.game_active \/ w.controller.level_completed_flag THEN w
    ELSE IF ~get_level(w.controller.current_level) THEN w
    ELSE IF outcome = "valid"
         THEN on_correct_solution([w EXCEPT !.attempt.valid = TRUE])
    ELSE IF outcome = "invalid" THEN on_incorrect_solution(w)
    ELSE [w EXCEPT !.editor.status = "error"]

\* restart_level that only starts the countdown again.
restart_level_countdown(w) ==
    [w EXCEPT !.bomb = start_timer(w.bomb,
                                   calculate_time_limit(w.controller.current_level)).bomb,
              !.controller.game_active = TRUE]

restart_level(w) == start_level(w, w.controller.current_level)

\* The timeouts of countdown_timer in a number of seconds, half of them and
\* then the other half.
RECURSIVE countdown(_, _)
countdown(b, seconds) ==
    IF seconds = 0 \/ ~b.timer_running THEN Quiet(b)
    ELSE IF seconds = 1 THEN update_countdown(b)
    ELSE LET after == countdown(b, seconds \div 2) IN
         IF after.signal # "" THEN after
         ELSE countdown(after.bomb, seconds - seconds \div 2)

\* The seconds until something happens by itself: a single shot is due, the
\* countdown shows 0, or expires.
Moments ==
    timers.hints \cup {start.remaining : start \in timers.starts}
      \cup (IF bomb.timer_running
            THEN {IF bomb.time_remaining > 0 THEN bomb.time_remaining ELSE 1}
            ELSE {})

\* The player acts when a level has just started, when its countdown shows
\* 0, and while no countdown runs.
PlayerActs ==
    /\ tally.op # ""
    /\ ~bomb.timer_running \/ attempt.elapsed \in {0, attempt.limit}

\* GameController.initialize_game, once.
InitializeGame ==
    /\ tally.op = ""
    /\ Become(start_level(At("initialize_game"), 1))

\* Time passes up to the next moment, the countdown timing out every second
\* of it and timer_expired calling on_timer_expired.  A shot that is due
\* fires first.  The cuts of a solution take 600 ms in all: the next moment
\* comes before the last of them only if it is a second away, and only one
\* does.
Elapse ==
    /\ tally.op # ""
    /\ 0 \notin Moments
    /\ Moments # {}
    /\ timers.cuts = <<>> \/ (~timers.waited /\ 1 \in Moments)
    /\ LET seconds == CHOOSE m \in Moments : \A n \in Moments : m <= n
           after == countdown(bomb, seconds)
           w == [At("update_countdown") EXCEPT
                    !.bomb = after.bomb,
                    !.timers.hints = {hint - seconds : hint \in @},
                    !.timers.starts = {[start EXCEPT !.remaining = @ - seconds] : start \in @},
                    !.timers.waited = timers.cuts # <<>>,
                    !.attempt.elapsed = @ + seconds]
       IN  Become(IF after.signal = "timer_expired" THEN on_timer_expired(w) ELSE w)

\* code_submitted: the player submits.
Submit(outcome) ==
    /\ PlayerActs
    /\ Become(validate_code(At("validate_code"), outcome))

\* restart_requested: the restart button is clicked while it is shown.
Restart ==
    /\ PlayerActs
    /\ editor.restart_button
    /\ tally.restarts < MaxRestarts
    /\ controller.current_level \in RestartLevels
    /\ Become(restart_level([At("restart_level") EXCEPT !.tally.restarts = @ + 1]))

\* A shot of activate_hint_system is due.
FireHint ==
    /\ 0 \in timers.hints
    /\ Become(activate_hint_system([At("activate_hint_system") EXCEPT
                                       !.timers.hints = @ \ {0}]))

\* The next shot of cut_wire fires; bomb_defused calls on_level_completed.
FireCut ==
    /\ timers.cuts # <<>>
    /\ LET after == cut_wire(bomb, Head(timers.cuts))
           w == [At("cut_wire") EXCEPT
                    !.bomb = after.bomb,
                    !.timers.cuts = Tail(@),
                    !.timers.waited = @ /\ Len(timers.cuts) > 1]
       IN  Become(IF after.signal = "bomb_defused" THEN on_level_completed(w) ELSE w)

\* The shot on_level_completed scheduled is due.
FireStart ==
    \E start \in timers.starts :
        /\ start.remaining = 0
        /\ Become(start_level([At("start_level") EXCEPT !.timers.starts = @ \ {start}],
                              start.level))

NextGame ==
    \/ InitializeGame
    \/ Elapse
    \/ \E outcome \in Outcomes : Submit(outcome)
    \/ Restart
    \/ FireHint
    \/ FireCut
    \/ FireStart

SpecGame == Init /\ [][NextGame]_vars

(***************************************************************************)
(* Properties of validate_solution.                                        *)
(***************************************************************************)
\* The call returned a report for a level of the catalog.
Reported == pc = "done" /\ get_level(level_number)

\* The call returned a report made from the results of execute_test_cases.
Tested == Reported /\ submitted_code.parse = "ok"

\* The function each solution_code of levels 1-5 defines first.
SolutionFunction(level) ==
    CASE level = 1 -> "calculate_discriminant"
      [] level = 2 -> "solve_linear"
      [] level = 3 -> "is_prime"
      [] level = 4 -> "gcd"
      [] level = 5 -> "fibonacci"

\* The names each exercise is about: the function its solution_code defines
\* first (levels 1-5), the names detect_level_type asks for (levels 6-10).
ExpectedSymbols(level) ==
    CASE level \in 1..5 -> {SolutionFunction(level)}
      [] level = 6 -> Level6Names
      [] level = 7 -> Level7Names
      [] level = 8 -> Level8Names
      [] level = 9 -> Level9Names
      [] level = 10 -> {"StatisticalAnalyzer"}

\* C1: a report for exercise id is valid only if the submission passed the
\* scenarios declared for exercise id: every test case of the level's
\* test_cases is among the passed results of a valid report.
C1_ValidOnlyForDeclaredScenarios ==
    (Reported /\ report.valid) =>
        \A k \in 1..Len(test_cases(level_number)) :
            \E j \in 1..Len(report.test_results) :
                /\ report.test_results[j].passed
                /\ report.test_results[j].input = test_cases(level_number)[k].input
                /\ report.test_results[j].expected = test_cases(level_number)[k].output

\* C2 as stated: in every report that carries scenario results, valid is true
\* if and only if every scenario result has passed = true.
C2_ValidIffAllPassed ==
    (pc = "done" /\ "test_results" \in DOMAIN report) =>
        (report.valid <=>
            \A i \in 1..Len(report.test_results) : report.test_results[i].passed)

\* C2 as amended: valid is true if and only if the report carries at least one
\* scenario result and every scenario result has passed = true; a report
\* without scenario results (unknown level, syntax error, runtime error) is
\* never valid.
C2_ValidIffSomeAndAllPassed ==
    pc = "done" =>
        (report.valid <=>
            /\ "test_results" \in DOMAIN report
            /\ Len(report.test_results) > 0
            /\ \A i \in 1..Len(report.test_results) : report.test_results[i].passed)

\* A report whose scenario results are mixed, some passed and some not: it is
\* not valid.
C2_Witness ==
    /\ pc = "done"
    /\ "test_results" \in DOMAIN report
    /\ ~report.valid
    /\ \E i, j \in 1..Len(report.test_results) :
          report.test_results[i].passed /\ ~report.test_results[j].passed

\* C3: when the invocation of scenario k raises, scenario k is recorded as
\* failed with the exception's message and every later scenario is still run
\* and reported: the call ends with one result per scenario of the harness.
C3_ScenarioIndependence ==
    (pc \in {"done", "escaped"} /\ raised # {}) =>
        /\ pc = "done"
        /\ Len(report.test_results) = Len(Scenarios)
        /\ \A k \in raised :
              /\ ~report.test_results[k].passed
              /\ report.test_results[k].error.kind = "Test execution error"

\* C4: a submission lacking one of the exercise's expected symbols is never
\* reported valid.
C4_MissingSymbolNeverValid ==
    (Reported /\ ~(ExpectedSymbols(level_number) \subseteq safe_globals)) =>
        ~report.valid

\* C5 as stated: a submission that does not parse gets an invalid report with
\* a syntax-error failure and no scenario results, and is never executed.
C5_UnparsableIsSyntaxError ==
    (Reported /\ submitted_code.parse # "ok") =>
        /\ ~report.valid
        /\ report.errors[1].prefix = "Syntax Error"
        /\ report.test_results = <<>>
        /\ ~executed

\* C5 as amended: a submission that does not parse is never executed and gets
\* an invalid report without scenario results, whose one failure is a syntax
\* error when ast.parse raised SyntaxError and a runtime error when it raised
\* another exception.
C5_UnparsableAborts ==
    (get_level(level_number) /\ submitted_code.parse # "ok") =>
        /\ ~executed
        /\ invoked = {}
        /\ pc \in {"parse", "done"}
        /\ pc = "done" =>
              /\ ~report.valid
              /\ Len(report.errors) = 1
              /\ report.errors[1].prefix =
                    (IF submitted_code.parse = "SyntaxError"
                     THEN "Syntax Error" ELSE "Runtime Error")
              /\ report.test_results = <<>>

\* The report of a submission with a syntax error.
C5_Witness ==
    /\ Reported
    /\ submitted_code.parse = "SyntaxError"
    /\ report.errors[1].prefix = "Syntax Error"

\* C6: when the snippet's top-level code raises, no scenario is run and the
\* report is invalid, carries a RuntimeError stage failure and has no scenario
\* results.
C6_TopLevelRaiseAborts ==
    (Tested /\ ExecOutcome(submitted_code) = "raise") =>
        /\ ~report.valid
        /\ invoked = {}
        /\ report.errors[1].prefix = "Runtime Error"
        /\ report.test_results = <<>>

\* C7: no exception escapes validate_solution.
C7_NoExceptionEscapes == pc # "escaped"

\* An operation outside the allow-list: a builtin that is not exposed, or the
\* import of a module that is not one of the pre-imported ones.
Disallowed(code) ==
    \/ code.needs \notin SafeBuiltins
    \/ code.needs = "__import__" /\ code.module \notin PreImported

\* C8: a submission that attempts an operation outside the allow-list is not
\* executed successfully: its report is never valid.
C8_SandboxIsolation ==
    (Tested /\ Disallowed(submitted_code)) => ~report.valid

\* C9: the report has exactly one result per test case of the exercise's
\* test_cases, in declaration order, with its input and expected output.
C9_OneResultPerDeclaredScenario ==
    Tested =>
        /\ Len(report.test_results) = Len(test_cases(level_number))
        /\ \A i \in 1..Len(report.test_results) :
              /\ report.test_results[i].test_number = i
              /\ report.test_results[i].input = test_cases(level_number)[i].input
              /\ report.test_results[i].expected = test_cases(level_number)[i].output

\* C10: every comparison of a validation call uses the same tolerance.
C10_OneTolerance == Cardinality(tolerances) <= 1

(***************************************************************************)
(* The comparator.                                                         *)
(***************************************************************************)
Compared == comparison.state = "returned"

\* Both values are numbers and none is a bool.
BothNumbers == comparison.actual.t = "num" /\ comparison.expected.t = "num"

BothSequences == IsSequence(comparison.actual) /\ IsSequence(comparison.expected)

\* C11: compare_outputs agrees with the reference definition. Two nulls are
\* equal; a null and a non-null are not; two numbers are equal iff the
\* absolute value of their difference is below the tolerance; two sequences
\* are equal iff they have the same length and every pair of elements at the
\* same position is equal under the same rule.
C11_AgreesWithReference ==
    Compared =>
        LET a == comparison.actual
            e == comparison.expected
            t == comparison.tolerance
        IN  /\ (a = PyNone /\ e = PyNone) => comparison.result
            /\ ((a = PyNone) # (e = PyNone)) => ~comparison.result
            /\ (BothNumbers /\ IsFinite(a) /\ IsFinite(e)) =>
                   (comparison.result <=> (a.n - e.n < t /\ e.n - a.n < t))
            /\ (BothNumbers /\ ~(IsFinite(a) /\ IsFinite(e))) => ~comparison.result
            /\ BothSequences =>
                   (comparison.result <=>
                       /\ Len(a.items) = Len(e.items)
                       /\ \A i \in 1..Len(a.items) :
                             i <= Len(e.items) =>
                                 compare_outputs(a.items[i], e.items[i], t))

\* Two sequences of different lengths whose common positions hold equal
\* elements have been compared.
C11_Witness ==
    /\ Compared
    /\ BothSequences
    /\ Len(comparison.actual.items) > Len(comparison.expected.items)
    /\ Len(comparison.expected.items) > 0
    /\ \A i \in 1..Len(comparison.expected.items) :
          compare_outputs(comparison.actual.items[i], comparison.expected.items[i],
                          comparison.tolerance)
    /\ ~comparison.result

\* C12: a pairing that is neither two numbers nor two sequences of equal
\* length is decided by exact equality only: the values compare equal iff
\* they are the same value. In particular a boolean expected value matches
\* only the identical boolean, never a number within tolerance of 0 or 1.
C12_ExactEqualityOtherwise ==
    (/\ Compared
     /\ ~BothNumbers
     /\ ~(BothSequences
          /\ Len(comparison.actual.items) = Len(comparison.expected.items)))
        => (comparison.result <=> comparison.actual = comparison.expected)

\* The value is, or holds at some depth, a nan or an infinite number.
RECURSIVE HoldsNonFinite(_)
HoldsNonFinite(v) ==
    IF IsSequence(v) THEN \E i \in 1..Len(v.items) : HoldsNonFinite(v.items[i])
    ELSE IsNumber(v) /\ ~IsFinite(v)

\* C13 as stated: compare_outputs is reflexive (a value equals itself) and
\* symmetric (a equals b iff b equals a) for the tolerance over the bounded
\* value set of nulls, numbers, booleans, strings and nested sequences.
C13_ReflexiveAndSymmetric ==
    Compared => /\ comparison.reflexive
                /\ comparison.result <=> comparison.reversed

\* C13, amended: compare_outputs is symmetric over the whole value set, and
\* reflexive on every value that neither is nor holds a nan or an infinite
\* number.
C13_SymmetricAndReflexiveOnFinite ==
    Compared => /\ comparison.result <=> comparison.reversed
                /\ ~HoldsNonFinite(comparison.actual) => comparison.reflexive

\* Two different non-empty sequences of finite numbers have been found equal
\* in both orders, and the first equal to itself.
C13_Witness ==
    /\ Compared
    /\ BothSequences
    /\ comparison.actual # comparison.expected
    /\ Len(comparison.actual.items) > 0
    /\ ~HoldsNonFinite(comparison.actual)
    /\ comparison.result
    /\ comparison.reversed
    /\ comparison.reflexive

(***************************************************************************)
(* The catalog.                                                            *)
(***************************************************************************)
\* validate_solution has returned its report on a source of the catalog.
SourceReported(field) ==
    pc = "done" /\ catalog.state = "submitted" /\ catalog.field = field

\* C14: for every exercise 1..10, validating the exercise's own reference
\* solution returns a report with valid = true.
C14_SolutionsAreValid ==
    catalog.field = "solution_code" =>
        /\ catalog.state # "KeyError"
        /\ SourceReported("solution_code") => report.valid

\* C15: for every exercise whose broken source is intentionally defective
\* (it is not the exercise's solution), validating the broken source returns
\* a report with valid = false.
C15_DefectiveBrokenIsNotValid ==
    (SourceReported("broken_code") /\ catalog.level \in defective_levels)
        => ~report.valid

\* A broken source that parses has been run and reported not valid with one
\* failed result per test case.
C15_Witness ==
    /\ SourceReported("broken_code")
    /\ catalog.level \in defective_levels
    /\ submitted_code.parse = "ok"
    /\ "test_results" \in DOMAIN report
    /\ Len(report.test_results) = Len(test_cases(catalog.level))
    /\ ~report.valid

\* C20: validate_level_data_integrity on the shipped catalog reports
\* valid = true, no issues, and valid_levels = 10.
C20_CatalogIntegrity ==
    integrity.state = "returned" =>
        /\ integrity.valid
        /\ integrity.issues = <<>>
        /\ integrity.valid_levels = 10

(***************************************************************************)
(* What one validation leaves behind.                                      *)
(***************************************************************************)
\* C16: the catalog is never mutated: after any sequence of get_level and
\* validate_solution calls it is exactly what initialize_levels built.
C16_CatalogNeverMutated ==
    levels_data = [level \in Levels |-> test_cases(level)]

\* C17: the engine keeps no state between calls and shares no namespace
\* object between submissions: the report for a given (exercise id, source)
\* is the same whatever was validated before it.
C17_ReportIndependentOfHistory ==
    \A first \in observed, second \in observed :
        (first.level = second.level /\ first.code = second.code)
            => first.report = second.report

\* C18: validate_solution returns a report for every submission, infinite
\* loops included: no call is ever left running a submission that does not
\* end (a ceiling would end it with a runtime failure of kind Timeout).
C18_EveryCallReturns == pc # "looping"

\* The number of known issues of the exercise the call names: none for an
\* unknown level.
KnownIssues == IF get_level(level_number) THEN errors_count(level_number) ELSE 0

\* C19: the fixed-error count of a report is an integer between 0 and the
\* number of known issues of the exercise: whenever the report carries it, it
\* is within that range, and so is the count its reader takes from the report.
C19_FixedCountInRange ==
    pc = "done" =>
        /\ "errors_fixed" \in DOMAIN report =>
               report.errors_fixed \in 0..KnownIssues
        /\ errors_fixed_count(report) \in 0..KnownIssues

\* A valid report for level 6 carries the count of its three known issues,
\* fewer than its nine results.
C19_Witness ==
    /\ pc = "done"
    /\ level_number = 6
    /\ report.valid
    /\ report.errors_fixed = 3
    /\ Len(report.test_results) = 9

(***************************************************************************)
(* The bomb.                                                               *)
(***************************************************************************)
\* C21: after start_timer(n) with n >= 1 and no stop or reset in between,
\* timer_expired is emitted exactly once, on the tick at which the countdown
\* reaches zero (the n-th one-second tick), and time_remaining never goes
\* below 0.
C21_ExpiresWhenCountdownReachesZero ==
    (meter.undisturbed /\ bomb.total_time >= 1) =>
        /\ bomb.time_remaining >= 0
        /\ meter.timer_expired = IF meter.ticks >= bomb.total_time THEN 1 ELSE 0

\* The step is a call of cut_wire.
CutWireCalled == meter'.op = "cut_wire"

\* The wire cut_wire is called with is one of the four and is intact.
CutsIntactWire == meter'.arg \in Wires \ bomb.cut

\* What a call of cut_wire does, by the wire it is called with.
CutWireEffect ==
    /\ (CutWireCalled /\ CutsIntactWire /\ Cardinality(bomb.cut) = 3) =>
          (/\ meter'.bomb_defused = meter.bomb_defused + 1
           /\ bomb'.cut = Wires
           /\ bomb'.bomb_defused_flag
           /\ ~bomb'.timer_running)
    /\ (CutWireCalled /\ CutsIntactWire /\ Cardinality(bomb.cut) < 3) =>
          (/\ meter'.bomb_defused = meter.bomb_defused
           /\ bomb'.cut = bomb.cut \cup {meter'.arg})
    /\ (CutWireCalled /\ ~CutsIntactWire) =>
          (bomb' = bomb /\ meter'.bomb_defused = meter.bomb_defused)

\* C22: between two reset_bomb calls bomb_defused is emitted exactly once, at
\* the cut_wire call that cuts the last of the four intact wires, and the
\* countdown is stopped at that moment; cut_wire on an already-cut or unknown
\* wire changes no state and emits nothing.
C22_DefusedOnceAtLastWire ==
    /\ [](meter.bomb_defused = IF bomb.cut = Wires THEN 1 ELSE 0)
    /\ [][CutWireEffect]_vars

\* The last wire has just been cut while the countdown was running: the bomb
\* is defused, the signal was emitted once and the countdown is stopped
\* short of zero.
C22_Witness ==
    /\ meter.op = "cut_wire"
    /\ bomb.cut = Wires
    /\ meter.bomb_defused = 1
    /\ meter.undisturbed = FALSE
    /\ meter.ticks > 0
    /\ bomb.time_remaining > 0
    /\ ~bomb.timer_running

(***************************************************************************)
(* Properties of the GameController.                                       *)
(***************************************************************************)
\* C23: between a start_level and the next, the hint is shown at most once,
\* and only when 80% of the time limit of that level have elapsed since
\* its start_level.
C23_HintOnceAfterFourFifths ==
    /\ attempt.hints <= 1
    /\ attempt.hints = 1 => 5 * attempt.hint_at >= 4 * attempt.limit

\* bomb_defused was emitted in this step, which calls on_level_completed.
BombDefused == tally'.op = "cut_wire" /\ bomb.cut # Wires /\ bomb'.cut = Wires

\* What on_level_completed does, and how current_level moves.
OnLevelCompletedEffect ==
    /\ (BombDefused /\ ~controller.level_completed_flag) =>
          /\ controller' = controller
          /\ editor' = editor
          /\ attempt' = attempt
          /\ timers'.starts = timers.starts
          /\ tally'.signals = <<>>
          /\ tally'.counted = tally.counted
    /\ (BombDefused /\ controller.level_completed_flag) =>
          /\ controller'.levels_completed = controller.levels_completed + 1
          /\ controller'.current_level = controller.current_level
          /\ tally'.counted =
                [tally.counted EXCEPT ![controller.current_level] = @ + 1]
          /\ IF controller.current_level = 10
             THEN /\ tally'.signals = <<"level_completed", "game_won">>
                  /\ timers'.starts = timers.starts
             ELSE /\ tally'.signals = <<"level_completed">>
                  /\ timers'.starts = timers.starts
                        \cup {[level |-> controller.current_level + 1, remaining |-> 3]}
    /\ controller.current_level \in 1..10
    /\ controller'.current_level \in {controller.current_level, controller.current_level + 1}
    /\ (tally.op = "" /\ tally'.op # "") => controller'.current_level = 1

\* C24: on_level_completed does nothing unless level_completed_flag is set;
\* when it is set it adds one to levels_completed, emits level_completed for
\* current_level, and then emits game_won at level 10 and schedules no
\* start_level, or schedules start_level(current_level + 1) below level 10.
\* The game starts at level 1 and current_level only ever moves to the next
\* level.
C24_LevelCompletedAdvancesInOrder == [][OnLevelCompletedEffect]_vars

\* Level 10 has just been completed: level_completed and game_won were
\* emitted, ten levels are counted, and no start_level is pending.
C24_Witness ==
    /\ tally.op = "cut_wire"
    /\ tally.signals = <<"level_completed", "game_won">>
    /\ controller.current_level = 10
    /\ controller.levels_completed = 10
    /\ timers.starts = {}

\* What holds when restart_level returns.
RestartLevelEffect ==
    tally'.op = "restart_level" =>
        /\ controller'.current_level = controller.current_level
        /\ bomb'.cut = {}
        /\ ~bomb'.bomb_exploded
        /\ ~bomb'.bomb_defused_flag
        /\ controller'.errors_fixed = 0
        /\ ~controller'.hint_shown
        /\ ~controller'.level_completed_flag
        /\ bomb'.timer_running
        /\ bomb'.time_remaining = calculate_time_limit(controller.current_level)
        /\ bomb'.total_time = calculate_time_limit(controller.current_level)
        /\ controller'.game_active

\* C25: when restart_level returns, current_level is what it was, the four
\* wires are intact, the bomb is neither exploded nor defused, errors_fixed
\* is empty, hint_shown and level_completed_flag are false, the countdown
\* runs from the full time limit of the level, and game_active is true.
C25_RestartResetsLevel == [][RestartLevelEffect]_vars

\* A level that had been completed was restarted: its countdown runs from
\* the full limit over four intact wires.
C25_Witness ==
    /\ tally.op = "restart_level"
    /\ tally.counted[controller.current_level] = 1
    /\ controller.game_active
    /\ ~controller.level_completed_flag
    /\ bomb.cut = {}
    /\ bomb.timer_running
    /\ bomb.time_remaining = calculate_time_limit(controller.current_level)

\* C26: between a start_level and the next, the controller does not emit
\* both game_over for the expired timer and level_completed.
C26_GameOverOrLevelCompleted == ~(attempt.game_over /\ attempt.level_completed)

\* C27: between a start_level and the next, a wire is cut only after
\* validate_solution reported a submission of that attempt valid.
C27_CutsFollowValidSubmission == bomb.cut # {} => attempt.valid

\* C28: levels_completed is at most max_level, no level is counted twice,
\* and progress_percent, levels_completed / max_level * 100, is within 0..100.
C28_LevelsCountedOnce ==
    /\ controller.levels_completed <= controller.max_level
    /\ \A level \in Levels : tally.counted[level] <= 1
    /\ (controller.levels_completed * 100) \div controller.max_level \in 0..100

\* validate_code called while the game is not active or the level is
\* completed leaves the controller, the editor, the bomb and the pending
\* shots as they were.
IgnoredSubmission ==
    (tally'.op = "validate_code"
       /\ (~controller.game_active \/ controller.level_completed_flag)) =>
        /\ controller' = controller
        /\ editor' = editor
        /\ bomb' = bomb
        /\ timers' = timers
        /\ attempt' = attempt

\* C29: validate_code has no effect when the game is not active or the level
\* is already completed: no wire is cut or scheduled to be cut, and neither
\* the status nor a flag changes.  Once the timer has expired the game is
\* not active until start_level runs again, so every submission is ignored.
C29_SubmissionsIgnoredWhenInactive ==
    /\ [](attempt.game_over => ~controller.game_active)
    /\ [][IgnoredSubmission]_vars

\* A submission was made after the timer expired and before a restart: the
\* status still tells of the explosion and no cut is scheduled.
C29_Witness ==
    /\ tally.op = "validate_code"
    /\ attempt.game_over
    /\ bomb.timer_expired_flag
    /\ ~controller.game_active
    /\ ~controller.level_completed_flag
    /\ editor.status = "error"
    /\ timers.cuts = <<>>
    /\ bomb.cut = {}

====
